---- MODULE Spec2Model ----
(***************************************************************************)
(* Harvest engine of assistente-tributario (backend/apps/coleta):          *)
(* the Celery task executar_scraper_fonte, ScraperBase.executar with its   *)
(* run log (LogColeta), CositScraper.coletar and the reconciler            *)
(* ScraperBase._salvar_documento over the catalogue (DocumentoFonte) and   *)
(* the raw-file store under data/raw.                                      *)
(*                                                                         *)
(* Every database or file-system operation of a run is one atomic step;    *)
(* the in-memory statements around it belong to the step that follows or   *)
(* precedes them.  Two runs of the same source may interleave.             *)
(***************************************************************************)
EXTENDS Integers, Sequences, FiniteSets, TLC

----------------------------------------------------------------------------
(* Bounds of the model *)

\* the clock readings run from 0 to MaxTime
MaxTime == 1
\* clock ticks per calendar month (year/month directory of the raw store)
TicksPorMes == 2
\* document links that all task executions together follow
MaxDocs == 2

\* links examined on the index pages of one harvest
MaxLinks == 2
\* rows of LogColeta that all task executions together open
MaxLogs == 2
\* clock ticks per hour
TicksPorHora == 1
\* calls of limpar_logs_antigos
MaxLimpezas == 1

\* task executions (Celery workers), numbered in the order they start
Runs == {1, 2}

----------------------------------------------------------------------------
(* Program constants *)

\* CositScraper._obter_lista_anos: [ano_atual, ano_atual - 1]
NumAnos == 2

\* tasks.py SCRAPERS_DISPONIVEIS
SCRAPERS_DISPONIVEIS == {"CositScraper"}

\* @shared_task(bind=True, max_retries=3, ...)
max_retries == 3

----------------------------------------------------------------------------
(* Values *)

\* a Python str is a sequence of code points: "A" and "e-acute"
Textos == {<<65>>, <<233>>}

\* identifiers as CositScraper builds them (characters)
Identificadores == {<<"c", "_", "1">>, <<"c", "_", "2">>}

\* link text and address of the pages harvested now; the rows harvested
\* earlier carry 't1' and 'u1' (characters)
Links == {[titulo |-> <<"t", "2">>, url |-> <<"u", "2">>]}

\* primary key of the configured source that the tasks are sent for, and its
\* name (characters)
FonteId == 1
FonteNome == <<"C", " ", "S">>

----------------------------------------------------------------------------
(* Pure functions *)

\* str.encode('utf-8') of one code point (one, two or three bytes here)
Utf8Char(cp) ==
    IF cp < 128 THEN <<cp>>
    ELSE IF cp < 2048 THEN <<192 + (cp \div 64), 128 + (cp % 64)>>
    ELSE <<224 + (cp \div 4096), 128 + ((cp \div 64) % 64), 128 + (cp % 64)>>

RECURSIVE Utf8(_)
Utf8(s) == IF s = <<>> THEN <<>> ELSE Utf8Char(Head(s)) \o Utf8(Tail(s))

\* the bytes a server sends for a text it stores in ISO-8859-1: one byte per
\* code point below 256, '?' for any other
Latin1(s) == [k \in 1..Len(s) |-> IF s[k] < 256 THEN s[k] ELSE 63]

\* a continuation byte of UTF-8
Continua(b) == b >= 128 /\ b < 192

\* bytes.decode('utf-8', errors='replace'): a byte that starts no well-formed
\* sequence becomes U+FFFD
RECURSIVE DecodificarUtf8(_)
DecodificarUtf8(b) ==
    IF b = <<>> THEN <<>>
    ELSE IF b[1] < 128 THEN <<b[1]>> \o DecodificarUtf8(Tail(b))
    ELSE IF b[1] >= 194 /\ b[1] < 224 /\ Len(b) >= 2 /\ Continua(b[2])
         THEN <<(b[1] - 192) * 64 + (b[2] - 128)>> \o DecodificarUtf8(SubSeq(b, 3, Len(b)))
    ELSE IF b[1] >= 224 /\ b[1] < 240 /\ Len(b) >= 3 /\ Continua(b[2]) /\ Continua(b[3])
         THEN <<(b[1] - 224) * 4096 + (b[2] - 128) * 64 + (b[3] - 128)>>
              \o DecodificarUtf8(SubSeq(b, 4, Len(b)))
    ELSE <<65533>> \o DecodificarUtf8(Tail(b))

\* CositScraper._baixar_documento: response.encoding = 'utf-8'; response.text
response_text(content) == DecodificarUtf8(content)

\* hashlib.sha256(...).hexdigest(): collision-free on the texts of the model
Sha256(bytes) == [alg |-> "sha256", de |-> bytes]

calcular_hash(conteudo) == Sha256(Utf8(conteudo))

\* str.lower() on the characters of the model
Lower(ch) == IF ch = "C" THEN "c" ELSE IF ch = "S" THEN "s" ELSE ch

\* fonte.nome.lower().replace(' ', '_')
Slug(nome) == [k \in 1..Len(nome) |-> IF Lower(nome[k]) = " " THEN "_" ELSE Lower(nome[k])]

\* identificador.replace('/', '_').replace('\\', '_')
SafeId(identificador) ==
    [k \in 1..Len(identificador) |->
        IF identificador[k] \in {"/", "\\"} THEN "_" ELSE identificador[k]]

\* year/month directory of datetime.now()
AnoMes(t) == t \div TicksPorMes

_obter_caminho_arquivo(nome, identificador, extensao, t) ==
    [fonte_dir |-> Slug(nome), ano_mes |-> AnoMes(t),
     arquivo |-> SafeId(identificador), ext |-> extensao]

\* CositScraper.validar_configuracao on the run's source object
validar_configuracao(fonte) == fonte.url_base # "" /\ fonte.tipo = "web"

\* signals.processar_arquivo_upload, connected to pre_save of DocumentoFonte by
\* ColetaConfig.ready: its first statement reads instance.arquivo_upload, and
\* DocumentoFonte declares no such field
processar_arquivo_upload(instance) ==
    IF "arquivo_upload" \notin DOMAIN instance THEN "AttributeError"
    ELSE "ok"

\* unique_together = [['fonte', 'identificador_externo']]
ViolaUnique(tabela, instance) ==
    \E d \in tabela : /\ d.fonte = instance.fonte
                      /\ d.identificador_externo = instance.identificador_externo
                      /\ d.pk # instance.pk

\* a calcular_duracao that leaves the duration as it was
DuracaoNaoCalculada(log) == log

\* LogColeta.calcular_duracao
calcular_duracao(log) ==
    IF log.finalizado_em # -1 /\ log.iniciado_em # -1
    THEN [log EXCEPT !.duracao_segundos = log.finalizado_em - log.iniciado_em]
    ELSE log

----------------------------------------------------------------------------
(* State *)

VARIABLES
    fontes,      \* table FonteDados: pk -> row
    documentos,  \* table DocumentoFonte: set of rows
    logs,        \* table LogColeta: sequence of rows, index = pk
    arquivos,    \* raw store: path -> text written there
    agora,       \* the last reading of the clock (timezone.now(), datetime.now())
    scraper,     \* per task execution: the scraper object and its position
    hist,        \* per task execution: the reconcile calls of its harvest loop
    escritas,    \* number of write_text calls made on the raw store
    agenda       \* the periodic tasks: executar_todas_fontes_ativas with its
                 \* result, the last calcular_proxima_coleta, the purge of logs

vars == <<fontes, documentos, logs, arquivos, agora, scraper, hist, escritas, agenda>>

\* rows of FonteDados the configuration can hold (models.py FonteDados)
FonteBase ==
    [nome |-> FonteNome, tipo |-> "web", url_base |-> "https://gov",
     scraper_class |-> "CositScraper", status |-> "ativo", ativo |-> TRUE,
     frequencia_coleta |-> "diaria", ultima_coleta |-> -1, proxima_coleta |-> -1]

FontesIniciais ==
    {FonteBase,
     [FonteBase EXCEPT !.tipo = "api"],
     [FonteBase EXCEPT !.url_base = ""],
     [FonteBase EXCEPT !.ativo = FALSE],
     [FonteBase EXCEPT !.scraper_class = "OutroScraper"]}

\* the table FonteDados a task can meet: the row of the source, also one
\* whose status is not 'ativo', or no row under the pk it was given
TabelasDeFontes ==
    {[k \in {FonteId} |-> f] : f \in FontesIniciais \cup {[FonteBase EXCEPT !.status = "inativo"]}}
    \cup {[k \in {} |-> FonteBase]}

\* a DocumentoFonte row as objects.create builds it (status and versao are the
\* field defaults 'coletado' and 1)
NovoDocumento(pk, fonte, identificador, titulo, url, conteudo, caminho) ==
    [pk |-> pk, fonte |-> fonte, identificador_externo |-> identificador,
     titulo |-> titulo, url_origem |-> url,
     hash_conteudo |-> calcular_hash(conteudo),
     caminho_arquivo |-> caminho, tamanho_bytes |-> Len(Utf8(conteudo)),
     status |-> "coletado", versao |-> 1]

\* catalogue rows that earlier harvests left: per identifier none, or one row
\* whose file holds the text its hash was taken from
PkInicial(identificador) == IF identificador = <<"c", "_", "1">> THEN 1 ELSE 2

EstadoInicial(v) == IF v = 1 THEN "coletado" ELSE "processado"

OpcoesIniciais ==
    {[presente |-> FALSE, texto |-> <<65>>, versao |-> 1],
     [presente |-> TRUE, texto |-> <<65>>, versao |-> 1],
     [presente |-> TRUE, texto |-> <<233>>, versao |-> 2]}

\* the second identifier has not been harvested before
CatalogosIniciais ==
    {o \in [Identificadores -> OpcoesIniciais] : ~o[<<"c", "_", "2">>].presente}

CaminhoInicial(i) == _obter_caminho_arquivo(FonteNome, i, "html", 0)

DocumentoInicial(i, o) ==
    [NovoDocumento(PkInicial(i), FonteId, i, <<"t", "1">>, <<"u", "1">>, o.texto, CaminhoInicial(i))
        EXCEPT !.versao = o.versao, !.status = EstadoInicial(o.versao)]

\* no periodic task has run
AgendaInicial ==
    [pc |-> "idle", agora |-> -1, total |-> 0, executadas |-> 0, erro |-> 0,
     contadas |-> {},     \* the sources the count query found
     enviadas |-> {},     \* the sources whose task was sent (detalhes)
     calculo |-> <<>>,    \* the last call of calcular_proxima_coleta
     limpezas |-> 0, limpeza |-> <<>>]   \* the calls of limpar_logs_antigos

\* the scraper object after ScraperBase.__init__, before the task has started
ScraperInicial ==
    [pc |-> "idle", fonte_id |-> FonteId, fonte |-> <<>>, log |-> <<>>, log_id |-> 0,
     docs_novos |-> 0, docs_atualizados |-> 0, docs_ignorados |-> 0, docs_erro |-> 0,
     total_processados |-> 0, ano |-> 1, ndocs |-> 0,
     doc_info |-> <<>>, conteudo |-> <<>>, doc_existente |-> <<>>, caminho |-> <<>>,
     status_final |-> "", mensagem |-> "", erro |-> "", em_except |-> FALSE,
     sucesso |-> FALSE, retorno |-> "",
     escapou |-> FALSE,          \* coletar caught an exception of its loop
     rede |-> <<"", "">>,        \* the last two network events of the run
     pulados |-> 0,              \* years of this coletar whose index fetch failed
     texto |-> <<>>,             \* the text whose bytes the server sent last
     vistos |-> 0,               \* links of the index pages examined so far
     visto |-> <<>>,             \* the link examined last
     retries |-> 0,              \* self.request.retries of the task
     anteriores |-> 0,           \* links followed by earlier attempts of the task
     tarefa |-> ""]              \* how the task execution ended

InitSemFontes ==
    /\ \E o \in CatalogosIniciais :
         /\ documentos = {DocumentoInicial(i, o[i]) : i \in {j \in Identificadores : o[j].presente}}
         /\ arquivos = [p \in {CaminhoInicial(i) : i \in {j \in Identificadores : o[j].presente}}
                          |-> LET i == CHOOSE j \in Identificadores : CaminhoInicial(j) = p
                              IN o[i].texto]
    /\ logs = <<>>
    /\ agora = 0
    /\ scraper = [r \in Runs |-> ScraperInicial]
    /\ hist = [r \in Runs |-> <<>>]
    /\ escritas = 0
    /\ agenda = AgendaInicial

Init ==
    /\ \E f \in FontesIniciais : fontes = [k \in {FonteId} |-> f]
    /\ InitSemFontes

InitTarefa ==
    /\ fontes \in TabelasDeFontes
    /\ InitSemFontes

\* a second source of the same scraper class under another unique name; the
\* catalogue holds one document harvested from it earlier
OutraFonteId == 2

NomesDaOutraFonte == {<<"c", "_", "s">>, <<"S">>}

DocumentoDaOutraFonte(nome, texto) ==
    NovoDocumento(1, OutraFonteId, <<"c", "_", "1">>, <<"t", "1">>, <<"u", "1">>, texto,
                  _obter_caminho_arquivo(nome, <<"c", "_", "1">>, "html", 0))

\* task execution r is sent for the source with pk r
InitFontes ==
    /\ \E nome \in NomesDaOutraFonte, texto \in Textos :
         LET d == DocumentoDaOutraFonte(nome, texto) IN
         /\ fontes = [k \in {FonteId, OutraFonteId} |->
                        IF k = FonteId THEN FonteBase
                        ELSE [FonteBase EXCEPT !.nome = nome]]
         /\ documentos = {d}
         /\ arquivos = [c \in {d.caminho_arquivo} |-> texto]
    /\ logs = <<>>
    /\ agora = 0
    /\ scraper = [r \in Runs |-> [ScraperInicial EXCEPT !.fonte_id = r]]
    /\ hist = [r \in Runs |-> <<>>]
    /\ escritas = 0
    /\ agenda = AgendaInicial

----------------------------------------------------------------------------
(* The clock *)

\* what timezone.now() or datetime.now() can return when the last reading was
\* a: the same instant or a later one
Leituras(a) == {a} \cup (IF a < MaxTime THEN {a + 1} ELSE {})

----------------------------------------------------------------------------
(* tasks.executar_scraper_fonte and ScraperBase.executar *)

\* executar is over (returned True or False, or raised): the task keeps the
\* counters and the id of the log for its result, the scraper object is dropped
\* Task.retry(exc=e) of Celery, called in the except block of the task: with
\* request.retries + 1 > max_retries it re-raises exc (MaxRetriesExceededError
\* is raised only when no exc is given), otherwise it re-sends the task with
\* retries + 1 and raises Retry
retry(s) == IF s.retries + 1 > max_retries THEN "raise" ELSE "retry"

\* a task that asks for a retry whatever executar did
SempreRetry(s, retorno) == retry(s)

\* tasks.py 62-99: executar returned and the task returns its result dict, or
\* an exception reached the except block of the task
ResultadoDaTarefa(s, retorno) ==
    IF retorno \in {"raise", "excecao"} THEN retry(s) ELSE "resultado"

Terminou(s, retorno) ==
    [ScraperInicial EXCEPT !.pc = "done", !.retorno = retorno,
                           !.tarefa = ResultadoDaTarefa(s, retorno),
                           !.fonte_id = s.fonte_id,
                           !.retries = s.retries,
                           !.anteriores = s.anteriores,
                           !.log_id = IF s.log = <<>> THEN 0 ELSE s.log[1].id,
                           !.docs_novos = s.docs_novos,
                           !.docs_atualizados = s.docs_atualizados,
                           !.docs_ignorados = s.docs_ignorados,
                           !.docs_erro = s.docs_erro,
                           !.ndocs = s.ndocs]

\* an except block that returns False without finalizing the log
ExcecaoSemFinalizar(s) == Terminou(s, "False")

\* an exception raised inside the try block of executar enters the except
\* block, which finalizes the log as 'erro'; one raised inside the except block
\* leaves executar
Excecao(s) ==
    IF ~s.em_except
    THEN [s EXCEPT !.em_except = TRUE, !.status_final = "erro",
                   !.mensagem = "Erro durante execucao", !.erro = "e",
                   !.pc = "fin_log"]
    ELSE Terminou(s, "raise")

\* the task looks the source up (ativo=True), picks the scraper class, builds
\* the scraper and calls executar, which validates the configuration
\* FonteDados.objects.get(id=fonte_id, ativo=True)
FonteAtiva(tabela, fonte_id) == {k \in DOMAIN tabela : k = fonte_id /\ tabela[k].ativo}

\* an executar that does not validate the configuration
ComecarSemValidar(s, ok) ==
    IF ~ok THEN Terminou(s, "excecao")
    ELSE IF FonteAtiva(fontes, s.fonte_id) = {} THEN Terminou(s, "nao_encontrada")
    ELSE IF fontes[s.fonte_id].scraper_class \notin SCRAPERS_DISPONIVEIS
         THEN Terminou(s, "nao_implementado")
    ELSE [s EXCEPT !.fonte = <<fontes[s.fonte_id]>>, !.pc = "criar_log"]

\* tasks.py 36-62 and scraper_base.py 279-286, for the scraper object s of a
\* new attempt; ok: the lookup query met no database error
Comecar(s, ok) ==
    IF ~ok THEN Terminou(s, "excecao")
    ELSE IF FonteAtiva(fontes, s.fonte_id) = {} THEN Terminou(s, "nao_encontrada")
    ELSE IF fontes[s.fonte_id].scraper_class \notin SCRAPERS_DISPONIVEIS
         THEN Terminou(s, "nao_implementado")
    ELSE IF ~validar_configuracao(fontes[s.fonte_id])
         THEN Terminou(s, "False")
    ELSE [s EXCEPT !.fonte = <<fontes[s.fonte_id]>>, !.pc = "criar_log"]

IniciarTarefa(r) ==
    /\ scraper[r].pc = "idle"
    /\ \A q \in Runs : q < r => scraper[q].pc # "idle"
    /\ \E ok \in BOOLEAN :
         scraper' = [scraper EXCEPT ![r] = Comecar(scraper[r], ok)]
    /\ UNCHANGED <<fontes, documentos, logs, arquivos, agora, hist, escritas, agenda>>

\* a retry that goes on with the scraper object of the attempt before
TentativaComContadores(s) ==
    [ScraperInicial EXCEPT
        !.fonte_id = s.fonte_id,
        !.retries = s.retries + 1,
        !.anteriores = s.anteriores + s.ndocs,
        !.docs_novos = s.docs_novos, !.docs_atualizados = s.docs_atualizados,
        !.docs_ignorados = s.docs_ignorados, !.docs_erro = s.docs_erro]

\* scraper_class(fonte) in the task run again: ScraperBase.__init__ builds a
\* new object with its counters at zero and no log; s is what the task kept of
\* the attempt before
NovaTentativa(s) ==
    [ScraperInicial EXCEPT
        !.fonte_id = s.fonte_id,
        !.retries = s.retries + 1,
        !.anteriores = s.anteriores + s.ndocs]

\* Celery runs the task again after Retry: a new scraper object, and
\* request.retries one higher
Retentar(r) ==
    /\ scraper[r].pc = "done"
    /\ scraper[r].tarefa = "retry"
    /\ \E ok \in BOOLEAN :
         scraper' = [scraper EXCEPT ![r] = Comecar(NovaTentativa(scraper[r]), ok)]
    /\ UNCHANGED <<fontes, documentos, logs, arquivos, agora, hist, escritas, agenda>>

\* ScraperBase._criar_log: LogColeta.objects.create(status='iniciado', ...)
NovoLog(id, fonte, t) ==
    [id |-> id, fonte |-> fonte, status |-> "iniciado", iniciado_em |-> t,
     finalizado_em |-> -1, duracao_segundos |-> -1,
     documentos_novos |-> 0, documentos_atualizados |-> 0,
     documentos_ignorados |-> 0, documentos_erro |-> 0,
     mensagem |-> "", erro_detalhe |-> ""]

CriarLog(r) ==
    /\ scraper[r].pc = "criar_log"
    /\ Len(logs) < MaxLogs
    /\ \E t \in Leituras(agora) :
         LET s == scraper[r]
             l == NovoLog(Len(logs) + 1, s.fonte_id, t) IN
         /\ agora' = t
         /\ logs' = Append(logs, l)
         /\ scraper' = [scraper EXCEPT ![r] = [s EXCEPT !.log = <<l>>, !.pc = "ano"]]
    /\ UNCHANGED <<fontes, documentos, arquivos, hist, escritas, agenda>>

\* ScraperBase._finalizar_log, first half: the log object takes the status, the
\* end time, the duration, the counters and the messages, and is saved
LogFinalizado(s, t) ==
    calcular_duracao(
        [s.log[1] EXCEPT !.status = s.status_final, !.finalizado_em = t,
                         !.documentos_novos = s.docs_novos,
                         !.documentos_atualizados = s.docs_atualizados,
                         !.documentos_ignorados = s.docs_ignorados,
                         !.documentos_erro = s.docs_erro,
                         !.mensagem = s.mensagem, !.erro_detalhe = s.erro])

SalvarLog(r) ==
    /\ scraper[r].pc = "fin_log"
    /\ \E ok \in BOOLEAN, t \in Leituras(agora) :
         LET s == scraper[r]
             l == LogFinalizado(s, t)
             s1 == [s EXCEPT !.log = <<l>>] IN
         /\ agora' = t
         /\ IF ok
            THEN /\ logs' = [logs EXCEPT ![l.id] = l]
                 /\ scraper' = [scraper EXCEPT ![r] = [s1 EXCEPT !.pc = "fin_fonte"]]
            ELSE /\ logs' = logs
                 /\ scraper' = [scraper EXCEPT ![r] = Excecao(s1)]
    /\ UNCHANGED <<fontes, documentos, arquivos, hist, escritas, agenda>>

\* ScraperBase._finalizar_log, second half: fonte.ultima_coleta = timezone.now()
\* and fonte.save(), which writes every field of the run's source object; then
\* executar returns
SalvarFonte(r) ==
    /\ scraper[r].pc = "fin_fonte"
    /\ \E ok \in BOOLEAN, t \in Leituras(agora) :
         LET s == scraper[r]
             f == [s.fonte[1] EXCEPT !.ultima_coleta = t]
             s1 == [s EXCEPT !.fonte = <<f>>] IN
         /\ agora' = t
         /\ IF ok
            THEN /\ fontes' = [fontes EXCEPT ![s.fonte_id] = f]
                 /\ scraper' = [scraper EXCEPT ![r] =
                       Terminou(s1, IF s.em_except \/ ~s.sucesso THEN "False" ELSE "True")]
            ELSE /\ fontes' = fontes
                 /\ scraper' = [scraper EXCEPT ![r] = Excecao(s1)]
    /\ UNCHANGED <<documentos, logs, arquivos, hist, escritas, agenda>>

----------------------------------------------------------------------------
(* CositScraper.coletar *)

\* a coletar that returns True whenever its loop came to the end
SempreSucesso(s) == TRUE

\* line 274: return total_processados > 0
TeveSucesso(s) == s.total_processados > 0

\* the loop over the years is over: coletar returns total_processados > 0 and
\* executar chooses the final status from it
ColetarRetorna(r) ==
    /\ scraper[r].pc = "ano"
    /\ scraper[r].ano > NumAnos
    /\ LET s == scraper[r]
           sucesso == TeveSucesso(s) IN
       scraper' = [scraper EXCEPT ![r] =
          [s EXCEPT !.sucesso = sucesso, !.pc = "fin_log",
                    !.doc_info = <<>>, !.conteudo = <<>>, !.texto = <<>>, !.rede = <<"", "">>,
                    !.pulados = 0,
                    !.status_final = IF sucesso THEN "sucesso" ELSE "erro",
                    !.mensagem = IF sucesso THEN "Coleta concluida com sucesso"
                                 ELSE "Coleta falhou sem excecao"]]
    /\ hist' = [hist EXCEPT ![r] = <<>>]
    /\ UNCHANGED <<fontes, documentos, logs, arquivos, agora, escritas, agenda>>

\* one more event (a fetch or a pause) on the network of the run
Evento(s, e) == [s EXCEPT !.rede = <<s.rede[2], e>>]

\* lines 276-278: an exception raised in the loop outside the try of one
\* candidate is logged, coletar returns False and executar finalizes with
\* 'erro' and the message of a failure without exception
ColetarExcecao(s) ==
    [s EXCEPT !.sucesso = FALSE, !.pc = "fin_log", !.escapou = TRUE,
              !.doc_info = <<>>, !.conteudo = <<>>, !.texto = <<>>, !.rede = <<"", "">>,
              !.pulados = 0,
              !.status_final = "erro", !.mensagem = "Coleta falhou sem excecao"]

\* a failed index fetch that is counted as one document error
IndiceFalhouContaErro(s) ==
    [s EXCEPT !.ano = s.ano + 1, !.pulados = s.pulados + 1,
              !.docs_erro = s.docs_erro + 1]

\* lines 229-231: if not html_ano: continue
IndiceFalhou(s) == [s EXCEPT !.ano = s.ano + 1, !.pulados = s.pulados + 1]

\* the index page of one year is fetched; a failed fetch skips the year
BaixarIndice(r) ==
    /\ scraper[r].pc = "ano"
    /\ scraper[r].ano <= NumAnos
    /\ \E ok \in BOOLEAN :
         LET s == Evento(scraper[r], "fetch") IN
         scraper' = [scraper EXCEPT ![r] =
            IF ok THEN [s EXCEPT !.pc = "doc"]
            ELSE IndiceFalhou(s)]
    /\ UNCHANGED <<fontes, documentos, logs, arquivos, agora, hist, escritas, agenda>>

\* the index page of one year is fetched and _parsear_pagina_ano raises on it
\* (a page the HTML parser rejects)
BaixarIndiceRejeitado(r) ==
    /\ scraper[r].pc = "ano"
    /\ scraper[r].ano <= NumAnos
    /\ scraper' = [scraper EXCEPT ![r] = ColetarExcecao(Evento(scraper[r], "fetch"))]
    /\ hist' = [hist EXCEPT ![r] = <<>>]
    /\ UNCHANGED <<fontes, documentos, logs, arquivos, agora, escritas, agenda>>

\* document links followed so far by all task executions, retried attempts
\* included
RECURSIVE Soma(_, _)
Soma(f, S) == IF S = {} THEN 0 ELSE LET x == CHOOSE y \in S : TRUE IN f[x] + Soma(f, S \ {x})

Seguidos == Soma([q \in Runs |-> scraper[q].anteriores + scraper[q].ndocs], Runs)

\* no link of the page is left: next year
FimDaPagina(r) ==
    /\ scraper[r].pc = "doc"
    /\ scraper' = [scraper EXCEPT ![r] = [scraper[r] EXCEPT !.pc = "ano", !.ano = @ + 1]]
    /\ UNCHANGED <<fontes, documentos, logs, arquivos, agora, hist, escritas, agenda>>

\* the next link of the page: its content is fetched; a failed (or empty) fetch
\* counts one error and the loop goes on
\* a failed download that ends the loop over the page and the years
FalhaDownloadAborta(s) ==
    [s EXCEPT !.ndocs = s.ndocs + 1, !.docs_erro = s.docs_erro + 1,
              !.pc = "ano", !.ano = NumAnos + 1]

\* lines 241-244: if not conteudo: self.docs_erro += 1; continue
FalhaDownload(s) ==
    [s EXCEPT !.ndocs = s.ndocs + 1, !.docs_erro = s.docs_erro + 1]

BaixarDocumento(r) ==
    /\ scraper[r].pc = "doc"
    /\ Seguidos < MaxDocs
    /\ \E i \in Identificadores, l \in Links, c \in Textos, ok \in BOOLEAN :
         LET s == Evento(scraper[r], "fetch") IN
         scraper' = [scraper EXCEPT ![r] =
            IF ok
            THEN [s EXCEPT !.ndocs = s.ndocs + 1, !.pc = "get", !.texto = c,
                           !.conteudo = response_text(Utf8(c)),
                           !.doc_info = <<[identificador |-> i, titulo |-> l.titulo, url |-> l.url]>>]
            ELSE FalhaDownload(s)]
    /\ UNCHANGED <<fontes, documentos, logs, arquivos, agora, hist, escritas, agenda>>

\* the next link of the page, on a server that sends its documents in
\* ISO-8859-1
BaixarDocumentoEmLatin(r) ==
    /\ scraper[r].pc = "doc"
    /\ Seguidos < MaxDocs
    /\ \E i \in Identificadores, l \in Links, c \in Textos :
         LET s == Evento(scraper[r], "fetch") IN
         scraper' = [scraper EXCEPT ![r] =
            [s EXCEPT !.ndocs = s.ndocs + 1, !.pc = "get", !.texto = c,
                      !.conteudo = response_text(Latin1(c)),
                      !.doc_info = <<[identificador |-> i, titulo |-> l.titulo, url |-> l.url]>>]]
    /\ UNCHANGED <<fontes, documentos, logs, arquivos, agora, hist, escritas, agenda>>

\* self._delay() after a reconciled candidate
Delay(r) ==
    /\ scraper[r].pc = "delay"
    /\ scraper' = [scraper EXCEPT ![r] = [Evento(scraper[r], "pausa") EXCEPT !.pc = "doc"]]
    /\ UNCHANGED <<fontes, documentos, logs, arquivos, agora, hist, escritas, agenda>>

----------------------------------------------------------------------------
(* The links of an index page: CositScraper._parsear_pagina_ano *)

\* a link text and an href are sequences of characters; the characters
\* outside ASCII are written by name ("ord" is the masculine ordinal
\* indicator U+00BA, "deg" the degree sign U+00B0)
Maiusculas ==
    <<"A", "B", "C", "D", "E", "F", "G", "H", "I", "J", "K", "L", "M", "N", "O",
      "P", "Q", "R", "S", "T", "U", "V", "W", "X", "Y", "Z", "C-cedilla", "A-tilde">>

Minusculas ==
    <<"a", "b", "c", "d", "e", "f", "g", "h", "i", "j", "k", "l", "m", "n", "o",
      "p", "q", "r", "s", "t", "u", "v", "w", "x", "y", "z", "c-cedilla", "a-tilde">>

\* str.lower()
lower(t) ==
    [k \in 1..Len(t) |->
        IF \E m \in 1..Len(Maiusculas) : Maiusculas[m] = t[k]
        THEN Minusculas[CHOOSE m \in 1..Len(Maiusculas) : Maiusculas[m] = t[k]]
        ELSE t[k]]

\* sub in t
Contem(t, sub) == \E k \in 0..(Len(t) - Len(sub)) : SubSeq(t, k + 1, k + Len(sub)) = sub

\* t.startswith(sub), t.endswith(sub)
startswith(t, sub) == Len(t) >= Len(sub) /\ SubSeq(t, 1, Len(sub)) = sub

endswith(t, sub) == Len(t) >= Len(sub) /\ SubSeq(t, Len(t) - Len(sub) + 1, Len(t)) = sub

\* lines 108-135
_e_solucao_consulta(texto, href) ==
    LET texto_lower == lower(texto)
        href_lower == lower(href)
    IN \/ Contem(texto_lower, <<"s", "o", "l", "u", "c-cedilla", "a-tilde", "o", " ",
                                "d", "e", " ", "c", "o", "n", "s", "u", "l", "t", "a">>)
       \/ Contem(texto_lower, <<"s", "o", "l", "u", "c", "a", "o", " ",
                                "d", "e", " ", "c", "o", "n", "s", "u", "l", "t", "a">>)
       \/ /\ Contem(texto_lower, <<"c", "o", "s", "i", "t">>)
          /\ \/ Contem(texto_lower, <<"n", "ord">>)
             \/ Contem(texto_lower, <<"n", "deg">>)
             \/ Contem(texto_lower, <<"n", "o">>)
       \/ /\ endswith(href_lower, <<".", "p", "d", "f">>)
          /\ Contem(href_lower, <<"c", "o", "n", "s", "u", "l">>)

\* \d and \s of the regular expression
DigitosDecimais == <<"0", "1", "2", "3", "4", "5", "6", "7", "8", "9">>

EhDigito(c) == \E m \in 1..10 : DigitosDecimais[m] = c

EhEspaco(c) == c \in {" ", "\t", "\n", "nbsp"}

\* the first position from k on that holds no white space
RECURSIVE PularEspacos(_, _)
PularEspacos(t, k) == IF k <= Len(t) /\ EhEspaco(t[k]) THEN PularEspacos(t, k + 1) ELSE k

\* the longest run of digits that starts at k
RECURSIVE DigitosEm(_, _)
DigitosEm(t, k) ==
    IF k <= Len(t) /\ EhDigito(t[k]) THEN <<t[k]>> \o DigitosEm(t, k + 1) ELSE <<>>

\* r'n[deg ord]?\s*(\d+)(?:/(\d{4}))?' with re.IGNORECASE, tried at position k:
\* the groups (numero, ano), or <<>> when the pattern does not match there
CasarEm(t, k) ==
    IF k > Len(t) \/ t[k] \notin {"n", "N"} THEN <<>>
    ELSE LET j == IF k + 1 <= Len(t) /\ t[k + 1] \in {"deg", "ord"} THEN k + 2 ELSE k + 1
             d == PularEspacos(t, j)
             numero == DigitosEm(t, d)
             f == d + Len(numero)
             ano == IF /\ f <= Len(t)
                       /\ t[f] = "/"
                       /\ Len(DigitosEm(t, f + 1)) >= 4
                    THEN SubSeq(t, f + 1, f + 4) ELSE <<>>
         IN IF numero = <<>> THEN <<>> ELSE <<numero, ano>>

\* re.search: the leftmost match, <<>> for None
re_search(t) ==
    IF \E k \in 1..Len(t) : CasarEm(t, k) # <<>>
    THEN CasarEm(t, CHOOSE k \in 1..Len(t) :
                       /\ CasarEm(t, k) # <<>>
                       /\ \A m \in 1..(k - 1) : CasarEm(t, m) = <<>>)
    ELSE <<>>

\* str(n) of a natural number
RECURSIVE str(_)
str(n) ==
    IF n < 10 THEN <<DigitosDecimais[n + 1]>>
    ELSE str(n \div 10) \o <<DigitosDecimais[(n % 10) + 1]>>

\* s.zfill(w)
RECURSIVE zfill(_, _)
zfill(t, w) == IF Len(t) >= w THEN t ELSE zfill(<<"0">> \o t, w)

\* datetime.now().year of the harvest
AnoAtual == 2026

\* the year of the n-th index page: [ano_atual, ano_atual - 1]
AnoDaPagina(n) == AnoAtual - (n - 1)

\* CositScraper.BASE_URL and the site prefix, each written as one element
BASE_URL == <<"https://www.gov.br/receitafederal/pt-br/acesso-a-informacao/legislacao/solucoes-de-consulta">>

\* a candidate for every link, numbered 1 when the text carries no number
ExtrairSempre(href, texto, ano) ==
    <<[identificador |-> <<"c", "o", "s", "i", "t", "_">> \o str(ano) \o <<"_">>
                            \o zfill(IF re_search(texto) = <<>> THEN <<"1">>
                                     ELSE re_search(texto)[1], 4),
       titulo |-> texto, url |-> href]>>

\* lines 137-184: the candidate of a link (a one-element sequence), or <<>>
\* for None
_extrair_info_documento(href, texto, ano) ==
    LET numero_match == re_search(texto) IN
    IF numero_match = <<>> THEN <<>>
    ELSE LET numero == numero_match[1]
             ano_doc == IF numero_match[2] # <<>> THEN numero_match[2] ELSE str(ano)
             url_completa ==
                 IF startswith(href, <<"h", "t", "t", "p">>) THEN href
                 ELSE IF startswith(href, <<"/">>) THEN <<"https://www.gov.br">> \o href
                 ELSE BASE_URL \o <<"/">> \o href
         IN <<[identificador |-> <<"c", "o", "s", "i", "t", "_">> \o ano_doc \o <<"_">>
                                    \o zfill(numero, 4),
               titulo |-> texto,
               url |-> url_completa]>>

\* the links an index page can hold
PaginaLinks ==
    {\* 'Cosit n<ord> 7/2025'
     [texto |-> <<"C", "o", "s", "i", "t", " ", "n", "ord", " ", "7", "/", "2", "0", "2", "5">>,
      href |-> <<"/", "s", "c", "7">>],
     \* 'N 12' on a PDF of the consultations
     [texto |-> <<"N", " ", "1", "2">>,
      href |-> <<"c", "o", "n", "s", "u", "l", ".", "p", "d", "f">>],
     \* 'cosit n<ord>': the number is missing
     [texto |-> <<"c", "o", "s", "i", "t", " ", "n", "ord">>,
      href |-> <<"/", "s", "c">>],
     \* 'Cosit no 2': digits that the pattern does not reach
     [texto |-> <<"C", "o", "s", "i", "t", " ", "n", "o", " ", "2">>,
      href |-> <<"/", "s", "c", "2">>],
     \* 'solucao de consulta' with no number
     [texto |-> <<"S", "o", "l", "u", "c", "a", "o", " ", "d", "e", " ",
                  "C", "o", "n", "s", "u", "l", "t", "a">>,
      href |-> <<"h", "t", "t", "p", ":", "/", "/", "x">>],
     \* a link of the page's navigation
     [texto |-> <<"I", "n", "i", "c", "i", "o">>, href |-> <<"/">>]}

\* the next link of the index page goes through _parsear_pagina_ano; only a
\* link that yields a candidate is fetched
ExaminarLink(r) ==
    /\ scraper[r].pc = "doc"
    /\ scraper[r].vistos < MaxLinks
    /\ \E l \in PaginaLinks, c \in Textos, ok \in BOOLEAN :
         LET s0 == [scraper[r] EXCEPT !.vistos = @ + 1, !.visto = <<l>>]
             doc_info == IF _e_solucao_consulta(l.texto, l.href)
                         THEN _extrair_info_documento(l.href, l.texto, AnoDaPagina(s0.ano))
                         ELSE <<>>
             s == Evento(s0, "fetch")
         IN IF doc_info = <<>>
            THEN scraper' = [scraper EXCEPT ![r] = s0]
            ELSE /\ Seguidos < MaxDocs
                 /\ scraper' = [scraper EXCEPT ![r] =
                       IF ok
                       THEN [s EXCEPT !.ndocs = s.ndocs + 1, !.pc = "get", !.texto = c,
                                      !.conteudo = response_text(Utf8(c)),
                                      !.doc_info = doc_info]
                       ELSE FalhaDownload(s)]
    /\ UNCHANGED <<fontes, documentos, logs, arquivos, agora, hist, escritas, agenda>>

----------------------------------------------------------------------------
(* ScraperBase._salvar_documento *)

\* Model.save of a DocumentoFonte instance: the pre_save receivers run first,
\* then the row is written under the unique constraint (pk 0: a new row)
ProximoPk(tabela) ==
    IF tabela = {} THEN 1
    ELSE 1 + (CHOOSE m \in {d.pk : d \in tabela} : \A d \in tabela : d.pk <= m)

\* UPDATE of the row with the instance's pk, or INSERT under a fresh pk
Gravar(tabela, instance) ==
    {d \in tabela : d.pk # instance.pk}
    \cup {IF instance.pk = 0 THEN [instance EXCEPT !.pk = ProximoPk(tabela)] ELSE instance}

\* a save that runs no receiver and checks no constraint
ModelSaveSemGuarda(tabela, instance) ==
    [erro |-> "", tabela |-> Gravar(tabela, instance)]

ModelSave(tabela, instance) ==
    IF processar_arquivo_upload(instance) # "ok"
    THEN [erro |-> processar_arquivo_upload(instance), tabela |-> tabela]
    ELSE IF ViolaUnique(tabela, instance)
    THEN [erro |-> "IntegrityError", tabela |-> tabela]
    ELSE [erro |-> "", tabela |-> Gravar(tabela, instance)]

\* a comparison that never finds the hashes equal
NuncaMesmoHash(doc, hash_atual) == FALSE

\* line 184: the stored hash against the hash of the candidate
MesmoHash(doc, hash_atual) == doc.hash_conteudo = hash_atual

\* lines 190-194: the fields the update path sets on the object it found
AtualizarCampos(doc, hash_atual, titulo, url) ==
    [doc EXCEPT !.hash_conteudo = hash_atual, !.versao = doc.versao + 1,
                !.titulo = titulo, !.url_origem = url, !.status = "coletado"]

\* an except clause that returns None without counting the error
FalhouSemContar(s) ==
    [s EXCEPT !.total_processados = s.total_processados + 1,
              !.pc = "delay", !.doc_existente = <<>>, !.caminho = <<>>]

\* the except clause of _salvar_documento (docs_erro += 1; return None), and
\* what coletar does after the call returned
Falhou(s) ==
    [s EXCEPT !.docs_erro = s.docs_erro + 1, !.total_processados = s.total_processados + 1,
              !.pc = "delay", !.doc_existente = <<>>, !.caminho = <<>>]

Retornou(s) ==
    [s EXCEPT !.total_processados = s.total_processados + 1,
              !.pc = "delay", !.doc_existente = <<>>, !.caminho = <<>>]

EmCriacao(s, i) ==
    /\ s.pc \in {"write_new", "create"}
    /\ s.doc_info[1].identificador = i

\* lines 174-203: hash, lookup by (fonte, identificador_externo), comparison
ConsultarDocumento(r) ==
    /\ scraper[r].pc = "get"
    /\ LET s == scraper[r]
             i == s.doc_info[1].identificador
             hash_atual == calcular_hash(s.conteudo)
             achados == {d \in documentos : d.fonte = s.fonte_id /\ d.identificador_externo = i}
             outros == {q \in Runs \ {r} : scraper[q].fonte_id = s.fonte_id /\ EmCriacao(scraper[q], i)}
             h == [identificador |-> i, conteudo |-> s.conteudo, texto |-> s.texto,
                   ausente |-> achados = {},
                   antes |-> IF Cardinality(achados) = 1 THEN <<CHOOSE d \in achados : TRUE>> ELSE <<>>,
                   decisao |-> "", mudou |-> FALSE,
                   corrida |-> (achados = {} /\ outros # {}),
                   escritas |-> 0,
                   contadores |-> [docs_novos |-> s.docs_novos,
                                   docs_atualizados |-> s.docs_atualizados,
                                   docs_ignorados |-> s.docs_ignorados,
                                   docs_erro |-> s.docs_erro]] IN
         IF Cardinality(achados) > 1
         THEN /\ scraper' = [scraper EXCEPT ![r] = Falhou(s)]
              /\ hist' = [hist EXCEPT ![r] = Append(@, [h EXCEPT !.decisao = "Failed"])]
         ELSE IF achados = {}
         THEN /\ scraper' = [scraper EXCEPT ![r] = [s EXCEPT !.pc = "write_new"]]
              /\ hist' = [q \in Runs |->
                    IF q = r THEN Append(hist[r], h)
                    ELSE IF q \in outros
                         THEN [hist[q] EXCEPT ![Len(hist[q])].corrida = TRUE]
                         ELSE hist[q]]
         ELSE LET d == CHOOSE x \in achados : TRUE IN
              IF MesmoHash(d, hash_atual)
              THEN /\ scraper' = [scraper EXCEPT ![r] =
                         Retornou([s EXCEPT !.docs_ignorados = s.docs_ignorados + 1])]
                   /\ hist' = [hist EXCEPT ![r] = Append(@, [h EXCEPT !.decisao = "Unchanged"])]
              ELSE /\ scraper' = [scraper EXCEPT ![r] =
                         [s EXCEPT !.pc = "save_upd",
                                   !.doc_existente = <<AtualizarCampos(d, hash_atual,
                                                         s.doc_info[1].titulo, s.doc_info[1].url)>>]]
                   /\ hist' = [hist EXCEPT ![r] = Append(@, h)]
    /\ UNCHANGED <<fontes, documentos, logs, arquivos, agora, escritas, agenda>>

\* lines 205-207 and 212-216: doc_existente.save(), the first time with the
\* new hash, version, title, origin and status, the second time with the path
\* and the size of the file written in between
SalvarDocumento(r) ==
    /\ scraper[r].pc \in {"save_upd", "save_upd2"}
    /\ LET s == scraper[r]
             n == Len(hist[r])
             doc == IF s.pc = "save_upd" THEN s.doc_existente[1]
                    ELSE [s.doc_existente[1] EXCEPT
                             !.caminho_arquivo = s.caminho[1],
                             !.tamanho_bytes = Len(Utf8(s.conteudo))]
             res == ModelSave(documentos, doc) IN
         IF res.erro # ""
         THEN /\ documentos' = documentos
              /\ scraper' = [scraper EXCEPT ![r] = Falhou(s)]
              /\ hist' = [hist EXCEPT ![r][n].decisao = "Failed"]
         ELSE /\ documentos' = res.tabela
              /\ IF s.pc = "save_upd"
                 THEN /\ scraper' = [scraper EXCEPT ![r] =
                            [s EXCEPT !.docs_atualizados = s.docs_atualizados + 1,
                                      !.pc = "write_upd"]]
                      /\ hist' = [hist EXCEPT ![r][n].mudou = @ \/ (res.tabela # documentos)]
                 ELSE /\ scraper' = [scraper EXCEPT ![r] = Retornou(s)]
                      /\ hist' = [hist EXCEPT ![r][n].mudou = @ \/ (res.tabela # documentos),
                                              ![r][n].decisao = "Updated"]
    /\ UNCHANGED <<fontes, logs, arquivos, agora, escritas, agenda>>

\* lines 210-211 and 220-221: the path for the current month and write_text
EscreverArquivo(r) ==
    /\ scraper[r].pc \in {"write_upd", "write_new"}
    /\ \E t \in Leituras(agora) :
         LET s == scraper[r]
             n == Len(hist[r])
             caminho == _obter_caminho_arquivo(s.fonte[1].nome, s.doc_info[1].identificador,
                                               "html", t)
             depois == (caminho :> s.conteudo) @@ arquivos IN
         /\ agora' = t
         /\ arquivos' = depois
         /\ escritas' = escritas + 1
         /\ scraper' = [scraper EXCEPT ![r] =
               [s EXCEPT !.caminho = <<caminho>>,
                         !.pc = IF s.pc = "write_new" THEN "create" ELSE "save_upd2"]]
         /\ hist' = [hist EXCEPT ![r][n].mudou = @ \/ (depois # arquivos),
                                 ![r][n].escritas = @ + 1]
    /\ UNCHANGED <<fontes, documentos, logs, agenda>>

\* lines 223-239: DocumentoFonte.objects.create(...)
CriarDocumento(r) ==
    /\ scraper[r].pc = "create"
    /\ LET s == scraper[r]
             n == Len(hist[r])
             doc == NovoDocumento(0, s.fonte_id, s.doc_info[1].identificador, s.doc_info[1].titulo,
                                  s.doc_info[1].url, s.conteudo, s.caminho[1])
             res == ModelSave(documentos, doc) IN
         IF res.erro # ""
         THEN /\ documentos' = documentos
              /\ scraper' = [scraper EXCEPT ![r] = Falhou(s)]
              /\ hist' = [hist EXCEPT ![r][n].decisao = "Failed"]
         ELSE /\ documentos' = res.tabela
              /\ scraper' = [scraper EXCEPT ![r] =
                    Retornou([s EXCEPT !.docs_novos = s.docs_novos + 1])]
              /\ hist' = [hist EXCEPT ![r][n].mudou = TRUE, ![r][n].decisao = "Created"]
    /\ UNCHANGED <<fontes, logs, arquivos, agora, escritas, agenda>>

----------------------------------------------------------------------------
(* tasks.executar_todas_fontes_ativas, calcular_proxima_coleta and
   limpar_logs_antigos *)

\* timedelta(hours=h) in ticks of the clock
timedelta(h) == h * TicksPorHora

\* a table of frequencies that knows the daily cadence only
SempreDiaria(label) == timedelta(24)

\* frequencias.get(fonte.frequencia_coleta, timedelta(days=1))
frequencias(label) ==
    CASE label = "horaria" -> timedelta(1)
      [] label = "diaria" -> timedelta(24)
      [] label = "semanal" -> timedelta(7 * 24)
      [] label = "mensal" -> timedelta(30 * 24)
      [] OTHER -> timedelta(24)

\* filter(ativo=True, status='ativo').filter(Q(proxima_coleta__isnull=True) |
\* Q(proxima_coleta__lte=agora))
Elegiveis(tabela, t) ==
    {k \in DOMAIN tabela :
        /\ tabela[k].ativo
        /\ tabela[k].status = "ativo"
        /\ tabela[k].proxima_coleta = -1 \/ tabela[k].proxima_coleta <= t}

\* lines 115-136: agora = timezone.now(); total = fontes.count(); with no
\* source ready the task returns at once
ContarFontes ==
    /\ agenda.pc = "idle"
    /\ \E t \in Leituras(agora) :
         LET prontas == Elegiveis(fontes, t) IN
         /\ agora' = t
         /\ agenda' = [agenda EXCEPT !.agora = t, !.contadas = prontas,
                                     !.total = Cardinality(prontas),
                                     !.pc = IF prontas = {} THEN "fim" ELSE "contou"]
    /\ UNCHANGED <<fontes, documentos, logs, arquivos, scraper, hist, escritas>>

\* lines 147-168: the loop runs the query again and sends one task per row;
\* apply_async can raise for any of them
DispararFontes ==
    /\ agenda.pc = "contou"
    /\ LET prontas == Elegiveis(fontes, agenda.agora) IN
       \E falhas \in SUBSET prontas :
         agenda' = [agenda EXCEPT !.pc = "fim",
                                  !.executadas = Cardinality(prontas \ falhas),
                                  !.erro = Cardinality(falhas),
                                  !.enviadas = prontas \ falhas]
    /\ UNCHANGED <<fontes, documentos, logs, arquivos, agora, scraper, hist, escritas>>

\* pks the task calcular_proxima_coleta is called with: the sources and a pk
\* with no row
FonteAusenteId == 3

\* lines 179-201: the source is read, proxima_coleta = timezone.now() + delta is
\* saved (update_fields); a missing source or a failing save is only logged
CalcularProximaColeta(k) ==
    /\ \E t \in Leituras(agora), ok \in BOOLEAN :
         /\ agora' = t
         /\ IF k \in DOMAIN fontes /\ ok
            THEN LET proxima == t + frequencias(fontes[k].frequencia_coleta) IN
                 /\ fontes' = [fontes EXCEPT ![k].proxima_coleta = proxima]
                 /\ agenda' = [agenda EXCEPT !.calculo =
                        <<[fonte_id |-> k, frequencia |-> fontes[k].frequencia_coleta,
                           referencia |-> t, proxima |-> proxima]>>]
            ELSE /\ fontes' = fontes
                 /\ agenda' = [agenda EXCEPT !.calculo = <<>>]
    /\ UNCHANGED <<documentos, logs, arquivos, scraper, hist, escritas>>

\* values of the argument dias
DiasDeRetencao == {0, 1}

\* the table keeps the pk of a deleted row: a row with status 'apagado' is
\* not in the table any more
Apagado(l) == [l EXCEPT !.status = "apagado"]

\* LogColeta.objects.filter(iniciado_em__lt=data_limite)
LogsAntigos(tabela, data_limite) ==
    {i \in 1..Len(tabela) : /\ tabela[i].status # "apagado"
                            /\ tabela[i].iniciado_em < data_limite}

\* lines 212-232: data_limite = timezone.now() - timedelta(days=dias), the
\* delete of the filtered rows and the result dict
LimparLogsAntigos ==
    /\ agenda.limpezas < MaxLimpezas
    /\ \E dias \in DiasDeRetencao, t \in Leituras(agora), ok \in BOOLEAN :
         LET data_limite == t - timedelta(24 * dias)
             apagar == LogsAntigos(logs, data_limite) IN
         /\ agora' = t
         /\ logs' = IF ok
                    THEN [i \in 1..Len(logs) |->
                            IF i \in apagar THEN Apagado(logs[i]) ELSE logs[i]]
                    ELSE logs
         /\ agenda' = [agenda EXCEPT
               !.limpezas = @ + 1,
               !.limpeza = <<[sucesso |-> ok, dias |-> dias, data_limite |-> data_limite,
                              logs_deletados |-> IF ok THEN Cardinality(apagar) ELSE 0]>>]
    /\ UNCHANGED <<fontes, documentos, arquivos, scraper, hist, escritas>>

----------------------------------------------------------------------------
(* The system *)

Next ==
    \E r \in Runs :
         \/ IniciarTarefa(r)
         \/ CriarLog(r)
         \/ BaixarIndice(r)
         \/ FimDaPagina(r)
         \/ BaixarDocumento(r)
         \/ ConsultarDocumento(r)
         \/ SalvarDocumento(r)
         \/ EscreverArquivo(r)
         \/ CriarDocumento(r)
         \/ Delay(r)
         \/ ColetarRetorna(r)
         \/ SalvarLog(r)
         \/ SalvarFonte(r)

\* two task executions that may overlap, each followed to the end of its
\* attempt (a retried attempt is one more execution of the same code), on
\* index pages the parser accepts
Spec == Init /\ [][Next]_vars

\* one task followed through all its attempts, on any table of sources and
\* any index page
NextTarefa ==
    \E r \in {1} :
         \/ IniciarTarefa(r)
         \/ Retentar(r)
         \/ CriarLog(r)
         \/ BaixarIndice(r)
         \/ BaixarIndiceRejeitado(r)
         \/ FimDaPagina(r)
         \/ BaixarDocumento(r)
         \/ BaixarDocumentoEmLatin(r)
         \/ ConsultarDocumento(r)
         \/ SalvarDocumento(r)
         \/ EscreverArquivo(r)
         \/ CriarDocumento(r)
         \/ Delay(r)
         \/ ColetarRetorna(r)
         \/ SalvarLog(r)
         \/ SalvarFonte(r)

SpecTarefa == InitTarefa /\ [][NextTarefa]_vars

\* one harvest whose index pages are parsed link by link
NextPagina ==
    \E r \in {1} :
         \/ IniciarTarefa(r)
         \/ CriarLog(r)
         \/ BaixarIndice(r)
         \/ FimDaPagina(r)
         \/ ExaminarLink(r)
         \/ ConsultarDocumento(r)
         \/ EscreverArquivo(r)
         \/ CriarDocumento(r)
         \/ Delay(r)
         \/ ColetarRetorna(r)
         \/ SalvarLog(r)
         \/ SalvarFonte(r)

SpecPagina == Init /\ [][NextPagina]_vars

\* two task executions that may overlap, sent for two different sources
SpecFontes == InitFontes /\ [][Next]_vars

\* cadence labels a source can carry (the field is free text)
Frequencias == {"horaria", "diaria", "semanal", "mensal", "quinzenal"}

\* the rows the second source can be: ready, switched off, not 'ativo', or
\* scheduled for the next tick
OutrasFontes ==
    {FonteBase, [FonteBase EXCEPT !.ativo = FALSE],
     [FonteBase EXCEPT !.status = "inativo"],
     [FonteBase EXCEPT !.proxima_coleta = 1]}

\* two sources: the first ready for harvest, under any cadence label when the
\* second is ready too
InitAgenda ==
    /\ \E freq \in Frequencias, outra \in OutrasFontes :
         /\ freq = "diaria" \/ outra = FonteBase
         /\ fontes = [k \in {FonteId, OutraFonteId} |->
                        IF k = FonteId THEN [FonteBase EXCEPT !.frequencia_coleta = freq]
                        ELSE [outra EXCEPT !.nome = <<"S">>]]
    /\ documentos = {}
    /\ arquivos = [c \in {} |-> <<>>]
    /\ logs = <<>>
    /\ agora = 0
    /\ scraper = [r \in Runs |-> [ScraperInicial EXCEPT !.fonte_id = r]]
    /\ hist = [r \in Runs |-> <<>>]
    /\ escritas = 0
    /\ agenda = AgendaInicial

\* the dispatch of the sources and the schedule helper beside one task
\* execution that harvests pages without document links
NextAgenda ==
    \/ ContarFontes
    \/ DispararFontes
    \/ \E k \in {FonteId, OutraFonteId, FonteAusenteId} : CalcularProximaColeta(k)
    \/ \E r \in {1} :
         \/ IniciarTarefa(r)
         \/ CriarLog(r)
         \/ BaixarIndice(r)
         \/ FimDaPagina(r)
         \/ ColetarRetorna(r)
         \/ SalvarLog(r)
         \/ SalvarFonte(r)

SpecAgenda == InitAgenda /\ [][NextAgenda]_vars

\* the purge of the logs beside two task executions that harvest pages
\* without document links
NextLimpeza ==
    \/ LimparLogsAntigos
    \/ \E r \in Runs :
         \/ IniciarTarefa(r)
         \/ CriarLog(r)
         \/ BaixarIndice(r)
         \/ FimDaPagina(r)
         \/ ColetarRetorna(r)
         \/ SalvarLog(r)
         \/ SalvarFonte(r)

SpecLimpeza == InitAgenda /\ [][NextLimpeza]_vars

----------------------------------------------------------------------------
(* Properties *)

Ultima(r) == hist[r][Len(hist[r])]

\* the reconcile call that run r has just returned from, no other run started
AcabouDeReconciliar(r) ==
    /\ scraper[r].pc = "delay"
    /\ hist[r] # <<>>
    /\ \A q \in Runs \ {r} : scraper[q].pc = "idle"

RegistrosDe(i) ==
    {d \in documentos : d.fonte = FonteId /\ d.identificador_externo = i}

Finalizado(l) == l.status \in {"sucesso", "erro"} /\ l.finalizado_em # -1

\* C1: once a LogColeta row has its end time set, no later step changes it
\* (status, end time, duration, counters, messages keep their values).
C1_FinalizadoImutavel ==
    [][\A k \in 1..Len(logs) : logs[k].finalizado_em # -1 => logs'[k] = logs[k]]_vars

C3_FalhaSemEstadoParcial ==
    \A r \in Runs : \A k \in 1..Len(hist[r]) :
        hist[r][k].decisao = "Failed" => ~hist[r][k].mudou

\* C4: the hash of every catalogue row is the digest of the text at its path,
\* and a save of a row is issued only once the text its hash was taken from is
\* at the path the row names (update path and create path).
HashDoArquivo(d) ==
    /\ d.caminho_arquivo \in DOMAIN arquivos
    /\ calcular_hash(arquivos[d.caminho_arquivo]) = d.hash_conteudo

C4_ConteudoAntesDoRegistro ==
    /\ \A d \in documentos : HashDoArquivo(d)
    /\ \A r \in Runs :
         /\ scraper[r].pc = "save_upd" => HashDoArquivo(scraper[r].doc_existente[1])
         /\ scraper[r].pc = "create" =>
              /\ scraper[r].caminho[1] \in DOMAIN arquivos
              /\ \A q \in Runs \ {r} : scraper[q].pc = "idle"
                   => arquivos[scraper[r].caminho[1]] = scraper[r].conteudo

\* C5: when two overlapping runs both found no row for the same identifier,
\* neither call decides Failed, and once both have decided exactly one of
\* them decided Created.
EmCorrida(r) == hist[r] # <<>> /\ Ultima(r).corrida

C5_CorridaSemFalha ==
    /\ \A r \in Runs : EmCorrida(r) => Ultima(r).decisao # "Failed"
    /\ \A r, q \in Runs :
         (r # q /\ EmCorrida(r) /\ EmCorrida(q)
            /\ Ultima(r).decisao # "" /\ Ultima(q).decisao # "")
         => (Ultima(r).decisao = "Created") # (Ultima(q).decisao = "Created")

\* C6: the catalogue never holds two rows with the same (fonte,
\* identificador_externo).
C6_UmRegistroPorIdentidade ==
    \A d1, d2 \in documentos :
        (d1.fonte = d2.fonte /\ d1.identificador_externo = d2.identificador_externo)
            => d1 = d2

\* two overlapping runs have both gone through the create path for one
\* identifier
C6_Witness ==
    \E r, q \in Runs :
        /\ r # q /\ EmCorrida(r) /\ EmCorrida(q)
        /\ Ultima(r).identificador = Ultima(q).identificador
        /\ Ultima(r).decisao # "" /\ Ultima(q).decisao # ""

\* C7: a run that reconciles the same text twice for an identifier that had
\* no row decides Created and then Unchanged; afterwards there is one row, of
\* version 1, and one write_text has been made.
C7_CriadoDepoisInalterado ==
    \A r \in Runs :
        (/\ AcabouDeReconciliar(r)
         /\ Len(hist[r]) = 2
         /\ hist[r][1].ausente
         /\ hist[r][1].identificador = hist[r][2].identificador
         /\ hist[r][1].conteudo = hist[r][2].conteudo)
        => /\ hist[r][1].decisao = "Created"
           /\ hist[r][2].decisao = "Unchanged"
           /\ Cardinality(RegistrosDe(hist[r][1].identificador)) = 1
           /\ \A d \in RegistrosDe(hist[r][1].identificador) : d.versao = 1
           /\ escritas = 1

\* C8: a reconcile call that found a row with another hash decides Updated;
\* the row then has the prior version plus 1, the new hash, the candidate's
\* title and origin, status coletado, the new text is stored at its path, and
\* docs_atualizados has grown by 1.
C8_AtualizadoComNovaVersao ==
    \A r \in Runs :
        (/\ AcabouDeReconciliar(r)
         /\ Ultima(r).antes # <<>>
         /\ Ultima(r).antes[1].hash_conteudo # calcular_hash(Ultima(r).conteudo))
        => /\ Ultima(r).decisao = "Updated"
           /\ scraper[r].docs_atualizados = Ultima(r).contadores.docs_atualizados + 1
           /\ \A d \in RegistrosDe(Ultima(r).identificador) :
                /\ d.versao = Ultima(r).antes[1].versao + 1
                /\ d.hash_conteudo = calcular_hash(Ultima(r).conteudo)
                /\ d.titulo = scraper[r].doc_info[1].titulo
                /\ d.url_origem = scraper[r].doc_info[1].url
                /\ d.status = "coletado"
                /\ HashDoArquivo(d)

\* C9: the step that finds a row with the same hash decides Unchanged, leaves
\* the catalogue and the raw store as they are, adds 1 to docs_ignorados and
\* leaves the other three counters alone.
AchaMesmoHash(r) ==
    /\ scraper[r].pc = "get"
    /\ \E d \in RegistrosDe(scraper[r].doc_info[1].identificador) :
         d.hash_conteudo = calcular_hash(scraper[r].conteudo)

C9_InalteradoNaoEscreve ==
    [][\A r \in Runs :
         (AchaMesmoHash(r) /\ scraper'[r] # scraper[r])
         => /\ documentos' = documentos
            /\ arquivos' = arquivos
            /\ escritas' = escritas
            /\ hist'[r] # <<>>
            /\ hist'[r][Len(hist'[r])].decisao = "Unchanged"
            /\ scraper'[r].docs_ignorados = scraper[r].docs_ignorados + 1
            /\ scraper'[r].docs_novos = scraper[r].docs_novos
            /\ scraper'[r].docs_atualizados = scraper[r].docs_atualizados
            /\ scraper'[r].docs_erro = scraper[r].docs_erro]_vars

\* a call has decided Unchanged for a row of version 2
C9_Witness ==
    \E r \in Runs :
        /\ hist[r] # <<>>
        /\ Ultima(r).decisao = "Unchanged"
        /\ Ultima(r).antes # <<>>
        /\ Ultima(r).antes[1].versao = 2
        /\ scraper[r].docs_ignorados = 1

\* C10: a reconcile call that found no row decides Created; there is then
\* exactly one row for the identifier, of version 1 and status coletado, its
\* hash the digest of the candidate text, the text stored at its path, and
\* docs_novos has grown by 1.
C10_CriadoVersaoUm ==
    \A r \in Runs :
        (AcabouDeReconciliar(r) /\ Ultima(r).ausente)
        => /\ Ultima(r).decisao = "Created"
           /\ scraper[r].docs_novos = Ultima(r).contadores.docs_novos + 1
           /\ Cardinality(RegistrosDe(Ultima(r).identificador)) = 1
           /\ \A d \in RegistrosDe(Ultima(r).identificador) :
                /\ d.versao = 1
                /\ d.status = "coletado"
                /\ d.hash_conteudo = calcular_hash(Ultima(r).conteudo)
                /\ HashDoArquivo(d)

----------------------------------------------------------------------------
(* Properties of the run accounting, the final status and the task *)

SomaDosContadores(c) ==
    c.docs_novos + c.docs_atualizados + c.docs_ignorados + c.docs_erro

\* the log row of run r carries the four counters of its scraper object
LinhaComContadores(r) ==
    LET l == logs[scraper[r].log[1].id] IN
    /\ l.documentos_novos = scraper[r].docs_novos
    /\ l.documentos_atualizados = scraper[r].docs_atualizados
    /\ l.documentos_ignorados = scraper[r].docs_ignorados
    /\ l.documentos_erro = scraper[r].docs_erro

\* run r has just saved its finalized log row
AcabouDeFinalizar(r) == scraper[r].pc = "fin_fonte"

\* C11: between two candidates and at the finalization the four counters of
\* a run sum to the number of links it followed, and the finalized log row
\* carries these four counters.
C11_ContadoresSomamCandidatos ==
    \A r \in Runs :
        /\ scraper[r].pc \in {"ano", "doc", "delay", "fin_log", "fin_fonte"}
             => SomaDosContadores(scraper[r]) = scraper[r].ndocs
        /\ AcabouDeFinalizar(r)
             => /\ LinhaComContadores(r)
                /\ logs[scraper[r].log[1].id].documentos_novos
                   + logs[scraper[r].log[1].id].documentos_atualizados
                   + logs[scraper[r].log[1].id].documentos_ignorados
                   + logs[scraper[r].log[1].id].documentos_erro = scraper[r].ndocs

\* a finalized row of a run with one unchanged and one failed candidate
C11_Witness ==
    \E r \in Runs :
        /\ AcabouDeFinalizar(r)
        /\ logs[scraper[r].log[1].id].documentos_ignorados = 1
        /\ logs[scraper[r].log[1].id].documentos_erro = 1
        /\ scraper[r].ndocs = 2

\* the loop of coletar came to its end, no exception, and the log row has
\* been saved by the finalization that follows
FinalizouAposLaco(r) ==
    AcabouDeFinalizar(r) /\ ~scraper[r].em_except /\ ~scraper[r].escapou

\* C12 as stated: after a loop that ended without an exception the log row is
\* finalized with status sucesso and the accumulated counters.
C12_LacoCompletoSucesso ==
    \A r \in Runs :
        FinalizouAposLaco(r)
            => /\ logs[scraper[r].log[1].id].status = "sucesso"
               /\ LinhaComContadores(r)

\* C12 amended: after a loop that ended without an exception the log row is
\* finalized with the accumulated counters, with status sucesso when at least
\* one candidate was handed to the reconciler and with status erro (failure
\* without exception, no error detail) when none was.
C12_SucessoSeProcessou ==
    \A r \in Runs :
        FinalizouAposLaco(r)
            => LET l == logs[scraper[r].log[1].id] IN
               /\ LinhaComContadores(r)
               /\ l.finalizado_em # -1
               /\ scraper[r].total_processados > 0 => l.status = "sucesso"
               /\ scraper[r].total_processados = 0
                    => /\ l.status = "erro"
                       /\ l.mensagem = "Coleta falhou sem excecao"
                       /\ l.erro_detalhe = ""

\* a row finalized with sucesso although both candidates of the run failed
C12_Witness ==
    \E r \in Runs :
        /\ FinalizouAposLaco(r)
        /\ logs[scraper[r].log[1].id].status = "sucesso"
        /\ logs[scraper[r].log[1].id].documentos_erro = 2

\* C13: when an exception left the loop of coletar, the log row is finalized
\* with status erro, a non-empty erro_detalhe and the counters accumulated
\* before the exception.
C13_ExcecaoComDetalhe ==
    \A r \in Runs :
        (AcabouDeFinalizar(r) /\ scraper[r].escapou)
            => /\ logs[scraper[r].log[1].id].status = "erro"
               /\ logs[scraper[r].log[1].id].erro_detalhe # ""
               /\ LinhaComContadores(r)

\* the source is found and its scraper registered, and validar_configuracao
\* rejects it
ConfigInvalida ==
    /\ FonteId \in DOMAIN fontes
    /\ fontes[FonteId].ativo
    /\ fontes[FonteId].scraper_class \in SCRAPERS_DISPONIVEIS
    /\ fontes[FonteId].url_base = "" \/ fontes[FonteId].tipo # "web"

\* C14: with a source whose configuration the scraper rejects, no step
\* creates a log row, changes a document row or a file, or writes the source
\* (ultima_coleta), and an attempt that reached executar returned False to
\* the task, which returns its result.
C14_ConfigInvalidaSemEfeito ==
    /\ [][ConfigInvalida => UNCHANGED <<fontes, documentos, logs, arquivos, escritas>>]_vars
    /\ [](ConfigInvalida =>
            \A r \in Runs :
                (scraper[r].pc = "done" /\ scraper[r].retorno # "excecao")
                    => /\ scraper[r].retorno = "False"
                       /\ scraper[r].tarefa = "resultado"
                       /\ scraper[r].log_id = 0)

\* executar has returned False on a rejected configuration
C14_Witness ==
    /\ ConfigInvalida
    /\ \E r \in Runs :
         /\ scraper[r].pc = "done"
         /\ scraper[r].retorno = "False"
         /\ scraper[r].tarefa = "resultado"

\* C15: a log row exists only for a source that is present, has ativo set,
\* has status ativo and names a registered scraper; a task that found no
\* such source returned a failure result and asked for no retry.
C15_LogSoParaFonteAtiva ==
    /\ Len(logs) > 0
         => /\ FonteId \in DOMAIN fontes
            /\ fontes[FonteId].ativo
            /\ fontes[FonteId].status = "ativo"
            /\ fontes[FonteId].scraper_class \in SCRAPERS_DISPONIVEIS
    /\ \A r \in Runs :
         (scraper[r].pc = "done"
            /\ scraper[r].retorno \in {"nao_encontrada", "nao_implementado"})
         => scraper[r].tarefa = "resultado" /\ scraper[r].log_id = 0

\* C16: when executar has returned with a finalized log row (no other task
\* running), ultima_coleta of the source is the finalizado_em of that row.
C16_UltimaColetaIgualAoFim ==
    \A r \in Runs :
        (/\ scraper[r].pc = "done"
         /\ scraper[r].retorno \in {"True", "False"}
         /\ scraper[r].log_id # 0
         /\ \A q \in Runs \ {r} : scraper[q].pc = "idle")
        => fontes[FonteId].ultima_coleta = logs[scraper[r].log_id].finalizado_em

\* C17: a run never makes two fetches in sequence with no pause between them.
C17_PausaEntreDownloads ==
    \A r \in Runs : scraper[r].rede # <<"fetch", "fetch">>

\* C18: request.retries never exceeds max_retries, and a task whose attempt
\* failed with max_retries retries already made returns a result (does not
\* raise).
C18_RetryLimitadoSemRaise ==
    \A r \in Runs :
        /\ scraper[r].retries <= max_retries
        /\ (scraper[r].pc = "done" /\ scraper[r].retries = max_retries
              /\ scraper[r].retorno \in {"raise", "excecao"})
           => scraper[r].tarefa = "resultado"

FalhaAoBaixar(r) ==
    /\ scraper[r].pc = "doc"
    /\ scraper'[r].ndocs = scraper[r].ndocs + 1
    /\ scraper'[r].pc # "get"

C20_FalhaDeDownloadContaUmErro ==
    [][\A r \in Runs :
         FalhaAoBaixar(r)
         => /\ scraper'[r].docs_erro = scraper[r].docs_erro + 1
            /\ scraper'[r].docs_novos = scraper[r].docs_novos
            /\ scraper'[r].docs_atualizados = scraper[r].docs_atualizados
            /\ scraper'[r].docs_ignorados = scraper[r].docs_ignorados
            /\ documentos' = documentos
            /\ arquivos' = arquivos
            /\ scraper'[r].pc = "doc"
            /\ scraper'[r].ano = scraper[r].ano]_vars

\* after a failed download the run has reconciled the next link of the page
C20_Witness ==
    \E r \in Runs :
        /\ scraper[r].ndocs = 2
        /\ Len(hist[r]) = 1
        /\ hist[r][1].contadores.docs_erro = 1
        /\ hist[r][1].decisao # ""

----------------------------------------------------------------------------
(* Properties of the index pages, the schedule, the purge and the sources *)

\* the step in which the index fetch of a year fails
FalhaNoIndice(r) ==
    /\ scraper[r].pc = "ano"
    /\ scraper'[r].pulados = scraper[r].pulados + 1

\* C21: the step in which the index fetch of a year fails changes none of
\* the four counters, fetches and reconciles no document, touches no row and
\* no file, raises nothing, and leaves the run at the head of the loop on the
\* next year.
C21_IndiceFalhoPulaAno ==
    [][\A r \in Runs :
         FalhaNoIndice(r)
         => /\ scraper'[r].docs_novos = scraper[r].docs_novos
            /\ scraper'[r].docs_atualizados = scraper[r].docs_atualizados
            /\ scraper'[r].docs_ignorados = scraper[r].docs_ignorados
            /\ scraper'[r].docs_erro = scraper[r].docs_erro
            /\ scraper'[r].ndocs = scraper[r].ndocs
            /\ scraper'[r].total_processados = scraper[r].total_processados
            /\ scraper'[r].pc = "ano"
            /\ scraper'[r].ano = scraper[r].ano + 1
            /\ ~scraper'[r].escapou /\ ~scraper'[r].em_except
            /\ UNCHANGED <<fontes, documentos, logs, arquivos, hist, escritas>>]_vars

\* the index of the first year failed and a document of the second year has
\* been reconciled
C21_Witness ==
    \E r \in Runs :
        /\ scraper[r].pulados = 1
        /\ scraper[r].ano = 2
        /\ hist[r] # <<>>
        /\ Ultima(r).decisao # ""

\* C24: a log row with status sucesso or erro has an end time not earlier
\* than its start time and a duration equal to end minus start; a row with
\* status iniciado has neither an end time nor a duration.
C24_DuracaoFimMenosInicio ==
    \A k \in 1..Len(logs) :
        LET l == logs[k] IN
        /\ l.status = "iniciado"
             => l.finalizado_em = -1 /\ l.duracao_segundos = -1
        /\ l.status \in {"sucesso", "erro"}
             => /\ l.finalizado_em # -1
                /\ l.finalizado_em >= l.iniciado_em
                /\ l.duracao_segundos = l.finalizado_em - l.iniciado_em

\* a finalized row of a run that lasted one tick of the clock
C24_Witness ==
    \E k \in 1..Len(logs) :
        /\ logs[k].status \in {"sucesso", "erro"}
        /\ logs[k].iniciado_em = 0
        /\ logs[k].finalizado_em = 1
        /\ logs[k].duracao_segundos = 1

\* C25: a step of a task execution sent for one source leaves, for every
\* other source, its row of FonteDados, its document rows, its log rows and
\* the files that its document rows point to as they were.
C25_FontesIndependentes ==
    [][\A r \in Runs : \A k \in DOMAIN fontes :
         (scraper'[r] # scraper[r] /\ k # scraper[r].fonte_id)
         => /\ fontes'[k] = fontes[k]
            /\ {d \in documentos' : d.fonte = k} = {d \in documentos : d.fonte = k}
            /\ \A i \in 1..Len(logs') :
                 logs'[i].fonte = k => (i <= Len(logs) /\ logs[i] = logs'[i])
            /\ \A d \in documentos :
                 (d.fonte = k /\ d.caminho_arquivo \in DOMAIN arquivos)
                 => arquivos'[d.caminho_arquivo] = arquivos[d.caminho_arquivo]]_vars

\* C22: the time calcular_proxima_coleta stores is its reference time plus 1
\* hour for the hourly label, 24 hours for the daily one, 7 days for the
\* weekly one, 30 days for the monthly one, and 24 hours for any other label.
C22_ProximaPorFrequencia ==
    agenda.calculo # <<>>
    => LET c == agenda.calculo[1]
           horas == c.proxima - c.referencia IN
       /\ c.frequencia = "horaria" => horas = 1 * TicksPorHora
       /\ c.frequencia = "diaria" => horas = 24 * TicksPorHora
       /\ c.frequencia = "semanal" => horas = 7 * 24 * TicksPorHora
       /\ c.frequencia = "mensal" => horas = 30 * 24 * TicksPorHora
       /\ c.frequencia \notin {"horaria", "diaria", "semanal", "mensal"}
            => horas = 24 * TicksPorHora

\* the helper has scheduled a source with the monthly label
C22_Witness ==
    /\ agenda.calculo # <<>>
    /\ agenda.calculo[1].frequencia = "mensal"
    /\ agenda.calculo[1].proxima = agenda.calculo[1].referencia + 720 * TicksPorHora
    /\ fontes[agenda.calculo[1].fonte_id].proxima_coleta = agenda.calculo[1].proxima

\* C23: when executar has returned with its log row finalized, proxima_coleta
\* of the source is set and later than the start of the run.
C23_ProximaColetaAposRun ==
    \A r \in Runs :
        (/\ scraper[r].pc = "done"
         /\ scraper[r].retorno \in {"True", "False"}
         /\ scraper[r].log_id # 0)
        => /\ fontes[scraper[r].fonte_id].proxima_coleta # -1
           /\ fontes[scraper[r].fonte_id].proxima_coleta
                > logs[scraper[r].log_id].iniciado_em

\* C26: when executar_todas_fontes_ativas has returned, the tasks it sent are
\* for sources that were ready (ativo, status ativo, proxima_coleta null or
\* not after its reading of the clock), one for every such source unless the
\* sending failed, and executadas + erro = total.
C26_DisparaAsElegiveis ==
    agenda.pc = "fim"
    => /\ agenda.total = Cardinality(agenda.contadas)
       /\ agenda.executadas + agenda.erro = agenda.total
       /\ agenda.executadas = Cardinality(agenda.enviadas)
       /\ agenda.enviadas \subseteq agenda.contadas
       /\ agenda.erro = 0 => agenda.enviadas = agenda.contadas

\* the step in which limpar_logs_antigos deletes
Limpou ==
    /\ agenda'.limpezas = agenda.limpezas + 1
    /\ agenda'.limpeza[1].sucesso

\* C27: limpar_logs_antigos deletes the rows whose iniciado_em is earlier than
\* now minus dias and no other, reports their number, changes no document and
\* no source, and deletes no row with status iniciado.
C27_LimpezaPoupaIniciados ==
    [][Limpou
       => LET res == agenda'.limpeza[1] IN
          /\ res.data_limite = agora' - res.dias * 24 * TicksPorHora
          /\ \A i \in 1..Len(logs) :
               logs[i].status # "apagado"
               => /\ logs[i].iniciado_em < res.data_limite => logs'[i].status = "apagado"
                  /\ logs[i].iniciado_em >= res.data_limite => logs'[i] = logs[i]
                  /\ logs[i].status = "iniciado" => logs'[i] = logs[i]
          /\ res.logs_deletados =
                Cardinality({i \in 1..Len(logs) : logs'[i].status # logs[i].status})
          /\ UNCHANGED <<fontes, documentos, arquivos>>]_vars

\* C28: the hash of a fetched document is the hash of the text the server
\* holds, whatever the encoding of the bytes it sent, and a document whose
\* stored hash is the hash of that text is decided Unchanged.
C28_HashIndependeDaCodificacao ==
    \A r \in Runs :
        /\ scraper[r].pc = "get"
             => calcular_hash(scraper[r].conteudo) = calcular_hash(scraper[r].texto)
        /\ \A n \in 1..Len(hist[r]) :
             (/\ hist[r][n].antes # <<>>
              /\ hist[r][n].decisao # ""
              /\ hist[r][n].antes[1].hash_conteudo = calcular_hash(hist[r][n].texto))
             => hist[r][n].decisao = "Unchanged"


\* the link examined last by run r matches the category tokens and carries no
\* number that the pattern can read
LinkSemNumero(s) ==
    /\ s.visto # <<>>
    /\ _e_solucao_consulta(s.visto[1].texto, s.visto[1].href)
    /\ re_search(s.visto[1].texto) = <<>>

\* C29: a link that matches the category tokens but has no parseable numeric
\* identifier is skipped silently: the step that examines it yields no
\* candidate, fetches nothing, touches no document row or file and changes
\* none of the four counters.
C29_LinkSemNumeroPulado ==
    [][\A r \in Runs :
          (/\ scraper'[r].vistos = scraper[r].vistos + 1
           /\ LinkSemNumero(scraper'[r]))
          => /\ scraper'[r].doc_info = scraper[r].doc_info
             /\ scraper'[r].ndocs = scraper[r].ndocs
             /\ scraper'[r].rede = scraper[r].rede
             /\ scraper'[r].pc = scraper[r].pc
             /\ scraper'[r].docs_novos = scraper[r].docs_novos
             /\ scraper'[r].docs_atualizados = scraper[r].docs_atualizados
             /\ scraper'[r].docs_ignorados = scraper[r].docs_ignorados
             /\ scraper'[r].docs_erro = scraper[r].docs_erro
             /\ documentos' = documentos
             /\ arquivos' = arquivos]_vars

\* a harvest that has reconciled one candidate and then examined a link with
\* digits the pattern does not reach
C29_Witness ==
    \E r \in Runs :
        /\ LinkSemNumero(scraper[r])
        /\ \E k \in 1..Len(scraper[r].visto[1].texto) : EhDigito(scraper[r].visto[1].texto[k])
        /\ scraper[r].vistos = 2
        /\ scraper[r].ndocs = 1
        /\ scraper[r].pc = "doc"


\* run r has finished a reconcile call that found a row of another hash
DecidiuSobreMudanca(r) ==
    /\ hist[r] # <<>>
    /\ Ultima(r).decisao # ""
    /\ Ultima(r).antes # <<>>
    /\ Ultima(r).antes[1].hash_conteudo # calcular_hash(Ultima(r).conteudo)

C31_FinalizarSoMudaUltimaColeta ==
    [][\A r \in Runs :
          (scraper[r].pc = "fin_fonte" /\ scraper'[r].pc # "fin_fonte")
          => \A k \in DOMAIN fontes :
                /\ k \in DOMAIN fontes'
                /\ fontes'[k].ativo = fontes[k].ativo
                /\ fontes'[k].status = fontes[k].status
                /\ fontes'[k].frequencia_coleta = fontes[k].frequencia_coleta
                /\ fontes'[k].proxima_coleta = fontes[k].proxima_coleta]_vars


\* the DocumentoFonte instance that run r is about to save, as a one-element
\* sequence: the new row of the create path or the row found of the update path
InstanciaASalvar(r) ==
    LET s == scraper[r] IN
    IF s.pc = "create"
    THEN <<NovoDocumento(0, s.fonte_id, s.doc_info[1].identificador, s.doc_info[1].titulo,
                         s.doc_info[1].url, s.conteudo, s.caminho[1])>>
    ELSE IF s.pc \in {"save_upd", "save_upd2"} THEN s.doc_existente
    ELSE <<>>

\* C32: the save of a DocumentoFonte that has no uploaded file, as every
\* create and update of _salvar_documento makes, passes through the pre_save
\* receiver without an error.
C32_ReceptorDeixaSalvar ==
    \A r \in Runs :
        InstanciaASalvar(r) # <<>>
            => processar_arquivo_upload(InstanciaASalvar(r)[1]) = "ok"


\* C33: the path of the raw store is injective on document identities within
\* one year and month: the path a run has written for its candidate is never
\* the path that a row of another (fonte, identificador_externo) is stored at.
C33_CaminhoInjetivo ==
    \A r \in Runs :
        scraper[r].caminho # <<>>
        => \A d \in documentos :
              (\/ d.fonte # scraper[r].fonte_id
               \/ d.identificador_externo # scraper[r].doc_info[1].identificador)
              => d.caminho_arquivo # scraper[r].caminho[1]


\* the counters of a record are all zero
ContadoresZerados(c) ==
    /\ c.documentos_novos = 0
    /\ c.documentos_atualizados = 0
    /\ c.documentos_ignorados = 0
    /\ c.documentos_erro = 0

\* C34: every retried attempt that passes validation opens a new LogColeta
\* row of its own, with the row's counters and the scraper's counters at zero;
\* its counters never exceed the links the attempt itself has followed; and
\* no step of a retried attempt changes a row opened by an earlier attempt.
C34_TentativaComLogProprio ==
    [][\A r \in Runs :
          scraper[r].retries > 0
          => /\ (scraper[r].pc = "criar_log" /\ scraper'[r].pc # "criar_log")
                  => /\ Len(logs') = Len(logs) + 1
                     /\ scraper'[r].log[1].id = Len(logs')
                     /\ ContadoresZerados(logs'[Len(logs')])
                     /\ scraper'[r].docs_novos = 0
                     /\ scraper'[r].docs_atualizados = 0
                     /\ scraper'[r].docs_ignorados = 0
                     /\ scraper'[r].docs_erro = 0
             /\ scraper'[r].retries = scraper[r].retries
                  => /\ scraper'[r].docs_novos <= scraper'[r].ndocs
                     /\ scraper'[r].docs_atualizados <= scraper'[r].ndocs
                     /\ scraper'[r].docs_ignorados <= scraper'[r].ndocs
                     /\ scraper'[r].docs_erro <= scraper'[r].ndocs
             /\ \A i \in 1..Len(logs) :
                  (scraper[r].log = <<>> \/ i # scraper[r].log[1].id)
                  => logs'[i] = logs[i]]_vars

\* the first attempt counted one error on its row and was retried; the second
\* attempt opened row 2 and finalized it with its own count of one error
C34_Witness ==
    \E r \in Runs :
        /\ scraper[r].retries = 1
        /\ Len(logs) = 2
        /\ logs[1].documentos_erro = 1
        /\ logs[2].status \in {"sucesso", "erro"}
        /\ logs[2].documentos_erro = 1
        /\ scraper[r].log_id = 2

====
